---- MODULE Spec2Model ----
(***************************************************************************)
(* Model of backend/main.py: a FastAPI application with one route,         *)
(* POST /slice, wrapped by a permissive CORSMiddleware.                    *)
(*                                                                         *)
(* Every request occupies one slot of Reqs from its arrival until its      *)
(* response has been sent.  The handler slice_stl is modelled statement by *)
(* statement: pc[r] is the line the invocation r is at.  "L18" is the      *)
(* invocation suspended in `await file.read()`, "L19" and "L20" are the    *)
(* two synchronous statements that follow.  Interleaving the synchronous   *)
(* statements of different invocations is a superset of what one event     *)
(* loop does, so every safety property shown here holds of the event loop. *)
(***************************************************************************)
EXTENDS Integers, Sequences, FiniteSets, TLC

\* ---------------------------------------------------------------- bounds
NumReqs == 2
MaxLen == 2

Reqs == 1..NumReqs

\* ------------------------------------------------------- optional values
None == <<>>
Some(x) == <<x>>
Val(o) == o[1]

\* ------------------------------------------------------------ input sets
Bytes == {83}

RECURSIVE SeqsUpTo(_)
SeqsUpTo(n) ==
    IF n = 0 THEN {<<>>}
    ELSE LET shorter == SeqsUpTo(n - 1)
         IN shorter \cup {Append(s, b) : s \in {t \in shorter : Len(t) = n - 1}, b \in Bytes}

Contents == SeqsUpTo(MaxLen)

Filenames == {"", "a.stl", "..\\my part (1).STL"}

\* The file part of a multipart request as the handler's parameter sees it:
\* an UploadFile with its filename, its spooled bytes and the stream position.
FileParts == {[filename |-> n, data |-> d, pos |-> 0] : n \in Filenames, d \in Contents}

NoOrigin == ""
Origins == {"https://slicr.example", "http://evil.test"}
Methods == {"POST", "GET", "PUT", "DELETE"}
HeaderSets == {{}, {"content-type"}, {"authorization", "x-slicr-token"}}

\* ------------------------------------------------------ the application
\* main.py:7-13, the keyword arguments of app.add_middleware(CORSMiddleware, ...)
AllowOriginsLocked == {"https://slicr.example"}
AllowOrigins == {"*"}
AllowCredentials == TRUE
AllowMethods == {"*"}
AllowHeaders == {"*"}

\* main.py:4-15: the application object after the module has been imported.
App ==
    [middleware |-> [allow_origins |-> AllowOrigins,
                     allow_credentials |-> AllowCredentials,
                     allow_methods |-> AllowMethods,
                     allow_headers |-> AllowHeaders],
     routes |-> {<<"POST", "/slice">>}]

\* main.py:16, `file: UploadFile = File(...)`: the Ellipsis default marks the
\* parameter as required.
FileOptional == FALSE
FileRequired == TRUE

VARIABLES
    app,        \* the service instance (configuration and routes)
    pc,         \* pc[r]: where request r is
    req,        \* req[r]: the file part the client sent (None: no file part)
    cors,       \* cors[r]: what the cross-origin middleware decided for r
    file,       \* the handler's parameter `file`
    contents,   \* the handler's local `contents`
    size,       \* the handler's local `size` (-1: not assigned)
    resp,       \* the handler's return value
    status      \* HTTP status of the response (0: none yet)

vars == <<app, pc, req, cors, file, contents, size, resp, status>>

\* ----------------------------------------------------- cross-origin policy
Wildcard(allowed, x) == "*" \in allowed \/ x \in allowed

OriginAllowed(a, origin) == Wildcard(a.middleware.allow_origins, origin)
MethodAllowed(a, m) == Wildcard(a.middleware.allow_methods, m)
HeadersAllowed(a, hs) == \A h \in hs : Wildcard(a.middleware.allow_headers, h)

\* A request that is not a preflight: it is passed on to the route, and the
\* response gets the Access-Control-Allow-Origin header iff the origin is allowed.
CorsSimple(a, origin) ==
    IF origin = NoOrigin THEN "no_origin"
    ELSE IF OriginAllowed(a, origin) THEN "allowed" ELSE "denied"

\* A preflight (OPTIONS with Origin and Access-Control-Request-Method).
CorsPreflight(a, origin, m, hs) ==
    IF OriginAllowed(a, origin) /\ MethodAllowed(a, m) /\ HeadersAllowed(a, hs)
    THEN "allowed" ELSE "denied"

\* ------------------------------------------------------------ the handler
Min(a, b) == IF a < b THEN a ELSE b

\* UploadFile.read(size): the bytes from the stream position on, all of them
\* for a negative size, at most `size` of them otherwise.
Read(f, n) ==
    LET last == IF n < 0 THEN Len(f.data) ELSE Min(Len(f.data), f.pos + n)
    IN SubSeq(f.data, f.pos + 1, last)

\* main.py:18, `file.read()`: read with the default size, -1.
FileReadPrefix(f) == Read(f, 1)
FileRead(f) == Read(f, -1)

\* main.py:18, the assignment to the local of this invocation.
StoreContentsShared(c, r, data) == [q \in Reqs |-> Some(data)]
StoreContents(c, r, data) == [c EXCEPT ![r] = Some(data)]

\* main.py:20, the dictionary the handler returns.
ResponseSanitised(f, n) ==
    [filename |-> IF f.filename = "" THEN "upload.stl" ELSE f.filename,
     size_bytes |-> n, message |-> "Stub slice done."]
ResponseEmptyMsg(f, n) ==
    [filename |-> f.filename, size_bytes |-> n,
     message |-> IF n = 0 THEN "Empty file." ELSE "Stub slice done."]
ResponseNoMessage(f, n) ==
    [filename |-> f.filename, size_bytes |-> n]
Response(f, n) ==
    [filename |-> f.filename, size_bytes |-> n, message |-> "Stub slice done."]

\* main.py:18-20: the statement that follows each statement of the handler.
HandlerNextSkipSize(l) ==
    CASE l = "L18" -> "L20"
      [] l = "L19" -> "L20"
      [] l = "L20" -> "done"
HandlerNext(l) ==
    CASE l = "L18" -> "L19"
      [] l = "L19" -> "L20"
      [] l = "L20" -> "done"

\* main.py:20, `return`: the frame of the invocation is dropped, and with it
\* the only reference to the buffer.
LocalsKept(c) == c
LocalsAfterReturn(c) == None

\* ------------------------------------------------------------------ Init
Init ==
    /\ app = App
    /\ pc = [r \in Reqs |-> "idle"]
    /\ req = [r \in Reqs |-> None]
    /\ cors = [r \in Reqs |-> "none"]
    /\ file = [r \in Reqs |-> None]
    /\ contents = [r \in Reqs |-> None]
    /\ size = [r \in Reqs |-> -1]
    /\ resp = [r \in Reqs |-> None]
    /\ status = [r \in Reqs |-> 0]

\* --------------------------------------------------------------- actions
\* main.py:7-16: a POST /slice arrives.  The middleware decides the
\* cross-origin headers, request validation binds the parameter `file`, and
\* the handler runs up to its first suspension, `await file.read()`.
Arrive(r) ==
    /\ pc[r] = "idle"
    /\ \E origin \in Origins \cup {NoOrigin}, part \in {Some(f) : f \in FileParts} \cup {None} :
        /\ req' = [req EXCEPT ![r] = part]
        /\ cors' = [cors EXCEPT ![r] = CorsSimple(app, origin)]
        /\ IF part = None /\ FileRequired
           THEN /\ pc' = [pc EXCEPT ![r] = "rejected"]
                /\ status' = [status EXCEPT ![r] = 422]
                /\ file' = file
           ELSE /\ pc' = [pc EXCEPT ![r] = "L18"]
                /\ status' = status
                /\ file' = [file EXCEPT ![r] = part]
    /\ UNCHANGED <<app, contents, size, resp>>

\* main.py:7-13: a preflight is answered by the middleware itself.
Preflight(r) ==
    /\ pc[r] = "idle"
    /\ \E origin \in Origins, m \in Methods, hs \in HeaderSets :
        LET d == CorsPreflight(app, origin, m, hs)
        IN /\ cors' = [cors EXCEPT ![r] = d]
           /\ status' = [status EXCEPT ![r] = IF d = "allowed" THEN 200 ELSE 400]
    /\ pc' = [pc EXCEPT ![r] = "preflight"]
    /\ UNCHANGED <<app, req, file, contents, size, resp>>

\* main.py:18: the awaited read completes and `contents` is assigned.  A
\* handler entered without a file has None for `file`; the attribute lookup
\* raises and the request ends in a server error.
ReadDone(r) ==
    /\ pc[r] = "L18"
    /\ IF file[r] = None
       THEN /\ pc' = [pc EXCEPT ![r] = "crashed"]
            /\ status' = [status EXCEPT ![r] = 500]
            /\ UNCHANGED <<file, contents>>
       ELSE LET f == Val(file[r])
                data == FileRead(f)
            IN /\ contents' = StoreContents(contents, r, data)
               /\ file' = [file EXCEPT ![r] = Some([f EXCEPT !.pos = f.pos + Len(data)])]
               /\ pc' = [pc EXCEPT ![r] = HandlerNext("L18")]
               /\ status' = status
    /\ UNCHANGED <<app, req, cors, size, resp>>

\* main.py:19: size = len(contents)
Size(r) ==
    /\ pc[r] = "L19"
    /\ size' = [size EXCEPT ![r] = Len(Val(contents[r]))]
    /\ pc' = [pc EXCEPT ![r] = HandlerNext("L19")]
    /\ UNCHANGED <<app, req, cors, file, contents, resp, status>>

\* main.py:20: the response is built and returned; the locals go away.
Return(r) ==
    /\ pc[r] = "L20"
    /\ resp' = [resp EXCEPT ![r] = Some(Response(Val(file[r]), size[r]))]
    /\ status' = [status EXCEPT ![r] = 200]
    /\ contents' = [contents EXCEPT ![r] = LocalsAfterReturn(contents[r])]
    /\ size' = [size EXCEPT ![r] = -1]
    /\ file' = [file EXCEPT ![r] = None]
    /\ pc' = [pc EXCEPT ![r] = HandlerNext("L20")]
    /\ UNCHANGED <<app, req, cors>>

\* The response has been sent; the slot serves a later request.
Recycle(r) ==
    /\ pc[r] \in {"done", "rejected", "preflight", "crashed"}
    /\ pc' = [pc EXCEPT ![r] = "idle"]
    /\ req' = [req EXCEPT ![r] = None]
    /\ cors' = [cors EXCEPT ![r] = "none"]
    /\ file' = [file EXCEPT ![r] = None]
    /\ size' = [size EXCEPT ![r] = -1]
    /\ resp' = [resp EXCEPT ![r] = None]
    /\ status' = [status EXCEPT ![r] = 0]
    /\ UNCHANGED <<app, contents>>

Next ==
    \E r \in Reqs :
        \/ Arrive(r)
        \/ Preflight(r)
        \/ ReadDone(r)
        \/ Size(r)
        \/ Return(r)
        \/ Recycle(r)

Spec == Init /\ [][Next]_vars

\* ------------------------------------------------------------ properties
Responded(r) == resp[r] # None
Upload(r) == Val(req[r])
Body(r) == Val(resp[r])
InHandler(r) == pc[r] \in {"L18", "L19", "L20"}

\* C1: every success response reports as size_bytes the exact length N of the
\* byte sequence its request uploaded, the empty upload (N = 0) included.
C1_SizeIsUploadLength ==
    \A r \in Reqs : Responded(r) => Body(r).size_bytes = Len(Upload(r).data)

C1_Witness ==
    \E r, q \in Reqs :
        /\ Responded(r) /\ Len(Upload(r).data) = 0 /\ Body(r).size_bytes = 0
        /\ Responded(q) /\ Len(Upload(q).data) >= 2 /\ Body(q).size_bytes >= 2

\* C2: every success response carries as filename the filename of the file
\* part of its request, unchanged, empty and unusual names included.
C2_FilenameEchoed ==
    \A r \in Reqs : Responded(r) => Body(r).filename = Upload(r).filename

C2_Witness ==
    \E r, q \in Reqs :
        /\ Responded(r) /\ Upload(r).filename = "" /\ Body(r).filename = ""
        /\ Responded(q) /\ Upload(q).filename \notin {"", "a.stl"}

\* C3: every success response has the message "Stub slice done.", whatever
\* the name and the content of the uploaded file.
C3_MessageConstant ==
    \A r \in Reqs : Responded(r) => Body(r).message = "Stub slice done."

C3_Witness ==
    \E r, q \in Reqs :
        /\ Responded(r) /\ Responded(q)
        /\ Upload(r).filename # Upload(q).filename
        /\ Len(Upload(r).data) = 0 /\ Len(Upload(q).data) > 0
        /\ Body(r).message = Body(q).message

\* C4: a POST /slice without a file part is answered by request validation
\* with a client error; the handler is never entered for it (no parameter
\* bound, nothing read, no success response) and it never ends in a server
\* error.
C4_MissingFileRejected ==
    \A r \in Reqs :
        (req[r] = None /\ pc[r] \notin {"idle", "preflight"}) =>
            /\ pc[r] = "rejected"
            /\ status[r] >= 400 /\ status[r] < 500
            /\ file[r] = None /\ contents[r] = None /\ size[r] < 0
            /\ ~Responded(r)

C4_Witness ==
    \E r \in Reqs : req[r] = None /\ pc[r] = "rejected" /\ status[r] = 422

\* C5: requests are independent: at every point of every interleaving, the
\* buffer, the length and the response of an invocation are those of its own
\* upload, never those of another request in flight or served before.
C5_RequestsIndependent ==
    \A r \in Reqs :
        /\ (InHandler(r) /\ contents[r] # None) => Val(contents[r]) = Upload(r).data
        /\ (InHandler(r) /\ size[r] >= 0) => size[r] = Len(Upload(r).data)
        /\ Responded(r) =>
            /\ Body(r).filename = Upload(r).filename
            /\ Body(r).size_bytes = Len(Upload(r).data)

C5_Witness ==
    \E r, q \in Reqs :
        /\ r # q
        /\ Responded(r) /\ pc[q] \in {"L19", "L20"}
        /\ Upload(r).filename # Upload(q).filename
        /\ Len(Upload(r).data) # Len(Upload(q).data)

\* C6: the cross-origin policy wraps every request and allows every origin,
\* method and header, with credentials: no preflight is refused and no
\* request that names an origin is left without the permission.
C6_CorsPermitsAll ==
    /\ app.middleware.allow_credentials
    /\ \A r \in Reqs :
        /\ pc[r] # "idle" => cors[r] \in {"no_origin", "allowed"}
        /\ pc[r] = "preflight" => (cors[r] = "allowed" /\ status[r] = 200)

C6_Witness ==
    \E r, q \in Reqs :
        /\ pc[r] = "preflight" /\ cors[r] = "allowed"
        /\ pc[q] = "done" /\ cors[q] = "allowed"

\* C7: handling requests has no lasting effect: the service instance never
\* changes, a buffer exists only between the read and the return of its
\* invocation, and once no request is in flight the state is the initial one.
C7_NoSideEffects ==
    /\ app = App
    /\ \A r \in Reqs : contents[r] # None => pc[r] \in {"L19", "L20"}
    /\ (\A r \in Reqs : pc[r] = "idle") => Init

C7_Witness ==
    \E r \in Reqs :
        /\ pc[r] = "done" /\ Responded(r)
        /\ Len(Upload(r).data) > 0 /\ contents[r] = None

\* C8: an invocation goes through its statements in order: the read is
\* awaited once at line 18, the length is taken only from a completed read,
\* and a response is produced only from a computed length of a finished read.
C8_HandlerOrder ==
    [][\A r \in Reqs :
        /\ (InHandler(r) /\ pc'[r] # pc[r]) =>
              <<pc[r], pc'[r]>> \in {<<"L18", "L19">>, <<"L19", "L20">>, <<"L20", "done">>}
        /\ (file[r] # None /\ file'[r] # None /\ file'[r] # file[r]) =>
              (pc[r] = "L18" /\ Val(file[r]).pos = 0)
        /\ (contents[r] = None /\ contents'[r] # None) => pc[r] = "L18"
        /\ (size[r] < 0 /\ size'[r] >= 0) =>
              (contents[r] # None /\ Val(file[r]).pos = Len(Val(file[r]).data))
        /\ (~Responded(r) /\ resp'[r] # None) =>
              /\ size[r] >= 0 /\ contents[r] # None
              /\ Val(file[r]).pos = Len(Val(file[r]).data)
    ]_vars

C8_Witness ==
    \E r \in Reqs :
        /\ pc[r] = "L20" /\ size[r] > 0 /\ contents[r] # None
        /\ Val(file[r]).pos = Len(Val(file[r]).data)

\* C9: every success response has exactly the fields filename, size_bytes
\* and message, and its size_bytes is a natural number.
C9_ResponseShape ==
    \A r \in Reqs :
        Responded(r) =>
            /\ DOMAIN Body(r) = {"filename", "size_bytes", "message"}
            /\ Body(r).size_bytes \in Nat

C9_Witness ==
    \E r \in Reqs : Responded(r) /\ status[r] = 200 /\ Body(r).size_bytes \in 1..MaxLen

\* C10: two requests with the same filename and the same bytes get the same
\* response, whatever was served before and whatever runs beside them.
C10_Deterministic ==
    \A r, q \in Reqs :
        (Responded(r) /\ Responded(q)
            /\ Upload(r).filename = Upload(q).filename
            /\ Upload(r).data = Upload(q).data) => Body(r) = Body(q)

C10_Witness ==
    \E r, q \in Reqs :
        /\ r # q /\ Responded(r) /\ Responded(q)
        /\ Upload(r) = Upload(q) /\ Len(Upload(r).data) > 0
        /\ Body(r) = Body(q)

====
